---- MODULE Spec2Model ----
(***************************************************************************)
(* Merge hull (divide and conquer convex hull), src/src/convex_hull.cpp.   *)
(*                                                                         *)
(* The program is modelled as a small-step state machine: merge_hull and   *)
(* the recursion of merge_hull_impl (an explicit stack of frames), merge,  *)
(* and one step per iteration of every loop of set_leftmost,               *)
(* set_rightmost, find_tangent, build_oneline_contour and the             *)
(* add_*_contour_to_builder walks, so that a loop that never ends is a     *)
(* cycle of the state graph.                                               *)
(*                                                                         *)
(* A point is a pair <<x, y>>; a contour is a sequence of points; a        *)
(* circulator over a contour is an index 1..Len(contour).                  *)
(***************************************************************************)
EXTENDS Integers, Sequences, FiniteSets

VARIABLES
    pts,        \* merge_hull's by-value argument (sorted in place)
    pc,         \* control location
    stack,      \* frames of merge_hull_impl: [beg, end, st, left]
    ret,        \* the contour returned by the last call that returned
    A, B,       \* merge's arguments
    ca, cb,     \* circular_A, circular_B
    ft,         \* position inside find_tangent: "outer", "inner1", "inner2"
    a_down, b_down, a_up, b_up,
    end_A, end_B,       \* build_oneline_contour's end circulators
    beg, wend, wdir,    \* add_contour_to_builder's walk: cursor, end, direction
    builder,    \* contour_builder_type::pts_
    result,     \* what merge_hull returned to its caller
    round,      \* 1: the caller's first call; 2: its call on the first result
    first       \* the first call's result, kept by the caller for round 2

vars == <<pts, pc, stack, ret, A, B, ca, cb, ft, a_down, b_down, a_up, b_up,
          end_A, end_B, beg, wend, wdir, builder, result, round, first>>

(***************************************************************************)
(* Bounds of the model.                                                    *)
(***************************************************************************)
MaxCoord == 2       \* coordinates are 0..MaxCoord
MaxN == 3           \* Spec: input sequences (any order) of at most MaxN points
MaxSorted == 7      \* SpecSorted: already sorted inputs of at most MaxSorted points
MaxTwice == 8       \* SpecTwice: already sorted inputs of at most MaxTwice points
MaxLocLen == 2      \* SpecLocator: contours of at most MaxLocLen points

Grid == (0..MaxCoord) \X (0..MaxCoord)

Range(s) == {s[i] : i \in 1..Len(s)}

(***************************************************************************)
(* point_type (geom/primitives, not part of the sources at hand).          *)
(***************************************************************************)
PointLess(p, q) == p[1] < q[1] \/ (p[1] = q[1] /\ p[2] < q[2])

PointGreater(p, q) == PointLess(q, p)

Minus(p, q) == <<p[1] - q[1], p[2] - q[2]>>

Cross(v1, v2) == v1[1] * v2[2] - v1[2] * v2[1]

(***************************************************************************)
(* predicates: sgn, turn.                                                  *)
(***************************************************************************)
sgn(x) == IF x = 0 THEN 0 ELSE IF x < 0 THEN -1 ELSE 1

turn(a, b, c) ==
    LET v1 == Minus(b, a)
        v2 == Minus(c, a)
        sign == sgn(Cross(v1, v2))
    IN  CASE sign = -1 -> "RIGHT"
          [] sign = 1 -> "LEFT"
          [] OTHER -> "COLLINEAR"

(***************************************************************************)
(* contour_circulator (geom/primitives, not part of the sources at hand):  *)
(* an index into the contour that wraps around at both ends.               *)
(***************************************************************************)
CircNext(c, i) == IF i = Len(c) THEN 1 ELSE i + 1

CircPrev(c, i) == IF i = 1 THEN Len(c) ELSE i - 1

(***************************************************************************)
(* boost::sort of the points by operator<.  Equal points are identical,    *)
(* so the sorted sequence is unique.                                       *)
(***************************************************************************)
RECURSIVE InsertSorted(_, _)
InsertSorted(s, p) ==
    IF s = <<>> THEN <<p>>
    ELSE IF PointLess(p, Head(s)) THEN <<p>> \o s
    ELSE <<Head(s)>> \o InsertSorted(Tail(s), p)

RECURSIVE SortPoints(_)
SortPoints(s) ==
    IF s = <<>> THEN <<>>
    ELSE InsertSorted(SortPoints(SubSeq(s, 1, Len(s) - 1)), s[Len(s)])

(***************************************************************************)
(* is_tangent, both overloads.                                             *)
(***************************************************************************)
is_tangent(p1, p2, p3) == turn(p1, p2, p3) # "RIGHT"

is_tangent_contour(p1, p2, contour) ==
    \A i \in 1..Len(contour) : turn(p1, p2, contour[i]) # "RIGHT"

(***************************************************************************)
(* is_on_one_line, both overloads.                                         *)
(***************************************************************************)
is_on_one_line(contour) ==
    IF Len(contour) <= 2 THEN TRUE
    ELSE \A i \in 1..(Len(contour) - 2) :
            turn(contour[i], contour[i + 1], contour[i + 2]) = "COLLINEAR"

is_on_one_line2(X, Y) == is_on_one_line(X \o Y)

(***************************************************************************)
(* merge_hull's guard, and the base case test of merge_hull_impl.          *)
(***************************************************************************)
\* the guard with its bound off by one
NotEnoughPointsMutant(p) == Len(p) < 1

NotEnoughPoints(p) == Len(p) < 2

IsBaseCase(distance) == distance <= 2

(***************************************************************************)
(* set_leftmost / set_rightmost: the early return (prev == current &&      *)
(* current == next) and the loop's exit condition.                         *)
(***************************************************************************)
\* the locators without their early return
LocatorReturnsEarlyMutant(c, i) == FALSE

LocatorReturnsEarly(c, i) == CircPrev(c, i) = i /\ i = CircNext(c, i)

IsLeftmost(c, i) ==
    PointLess(c[i], c[CircPrev(c, i)]) /\ PointLess(c[i], c[CircNext(c, i)])

IsRightmost(c, i) ==
    PointGreater(c[i], c[CircPrev(c, i)]) /\ PointGreater(c[i], c[CircNext(c, i)])

(***************************************************************************)
(* Control locations.                                                      *)
(***************************************************************************)
LeftmostSites == {"ol_leftA", "ol_leftB", "lo_leftB", "up_leftB", "loc_left"}

RightmostSites == {"lo_rightA", "up_rightA", "loc_right"}

LocatorSites == {"loc_left", "loc_right"}

\* the sites whose circulator is circular_A (the others use circular_B)
SitesOnA == {"ol_leftA", "lo_rightA", "up_rightA", "loc_left", "loc_right"}

AfterSite(site) ==
    CASE site = "ol_leftA" -> "ol_leftB"
      [] site = "ol_leftB" -> "ol_ends"
      [] site = "lo_rightA" -> "lo_leftB"
      [] site = "lo_leftB" -> "lo_tan"
      [] site = "up_rightA" -> "up_leftB"
      [] site = "up_leftB" -> "up_tan"
      [] OTHER -> "loc_done"

OnelineSites == {"ol_leftA", "ol_leftB", "ol_ends", "ol_walkA", "ol_walkB"}

TangentSites == {"lo_rightA", "lo_leftB", "lo_tan", "lo_save", "up_rightA",
                 "up_leftB", "up_tan", "up_save", "st_A", "st_walkA", "st_B",
                 "st_walkB"}

Frame(b, e) == [beg |-> b, end |-> e, st |-> "enter", left |-> <<>>]

(***************************************************************************)
(* The values the locals of merge hold outside merge.                      *)
(***************************************************************************)
MergeLocalsIdle ==
    /\ A = <<>> /\ B = <<>> /\ ca = 0 /\ cb = 0 /\ ft = "outer"
    /\ a_down = 0 /\ b_down = 0 /\ a_up = 0 /\ b_up = 0
    /\ end_A = 0 /\ end_B = 0 /\ beg = 0 /\ wend = 0 /\ wdir = 0
    /\ builder = <<>>

Idle ==
    /\ pc = "start" /\ stack = <<>> /\ ret = <<>> /\ result = <<>>
    /\ round = 1 /\ first = <<>>
    /\ MergeLocalsIdle

(***************************************************************************)
(* Inputs.                                                                 *)
(***************************************************************************)
SeqsUpTo(n) == UNION {[1..k -> Grid] : k \in 0..n}

RECURSIVE SortedSeqs(_)
SortedSeqs(n) ==
    IF n = 0 THEN {<<>>}
    ELSE LET shorter == SortedSeqs(n - 1)
             longest == {s \in shorter : Len(s) = n - 1}
         IN  shorter \cup
             {Append(x[1], x[2]) :
                x \in {y \in longest \X Grid :
                        y[1] = <<>> \/ ~PointLess(y[2], y[1][Len(y[1])])}}

Init == pts \in SeqsUpTo(MaxN) /\ Idle

InitSorted == pts \in SortedSeqs(MaxSorted) /\ Idle

InitTwice == pts \in SortedSeqs(MaxTwice) /\ Idle

\* set_leftmost / set_rightmost alone, on any contour of 1..MaxLocLen points,
\* from any position
InitLocator ==
    /\ A \in (SeqsUpTo(MaxLocLen) \ {<<>>})
    /\ ca \in 1..Len(A)
    /\ pc \in LocatorSites
    /\ pts = <<>> /\ stack = <<>> /\ ret = <<>> /\ result = <<>>
    /\ round = 1 /\ first = <<>>
    /\ B = <<>> /\ cb = 0 /\ ft = "outer"
    /\ a_down = 0 /\ b_down = 0 /\ a_up = 0 /\ b_up = 0
    /\ end_A = 0 /\ end_B = 0 /\ beg = 0 /\ wend = 0 /\ wdir = 0
    /\ builder = <<>>

mergeLocals == <<A, B, ca, cb, ft, a_down, b_down, a_up, b_up, end_A, end_B,
                 beg, wend, wdir, builder>>

(***************************************************************************)
(* merge_hull: the guard, the sort, the call of merge_hull_impl.           *)
(***************************************************************************)
MergeHull ==
    /\ pc = "start"
    /\ IF NotEnoughPoints(pts)
       THEN /\ pc' = "error"
            /\ UNCHANGED <<pts, stack>>
       ELSE /\ pts' = SortPoints(pts)
            /\ stack' = <<Frame(1, Len(pts) + 1)>>
            /\ pc' = "impl"
    /\ UNCHANGED <<ret, result, round, first, mergeLocals>>

(***************************************************************************)
(* merge_hull_impl, on entry: the base case, or the call on the left half. *)
(***************************************************************************)
ImplEnter ==
    /\ pc = "impl"
    /\ LET top == stack[Len(stack)]
           distance == top.end - top.beg
           middle == top.beg + (distance \div 2)
       IN  IF IsBaseCase(distance)
           THEN /\ ret' = SubSeq(pts, top.beg, top.end - 1)
                /\ stack' = SubSeq(stack, 1, Len(stack) - 1)
                /\ pc' = "ret"
           ELSE /\ stack' = Append([stack EXCEPT ![Len(stack)].st = "left"],
                                   Frame(top.beg, middle))
                /\ pc' = "impl"
                /\ UNCHANGED ret
    /\ UNCHANGED <<pts, result, round, first, mergeLocals>>

(***************************************************************************)
(* A call returns: to merge_hull, or to merge_hull_impl after its left     *)
(* call (which then calls on the right half) or after its right call       *)
(* (which then calls merge, whose result it returns).                      *)
(***************************************************************************)
ImplReturn ==
    /\ pc = "ret"
    /\ IF stack = <<>>
       THEN /\ result' = ret
            /\ pc' = "done"
            /\ UNCHANGED <<stack, A, B>>
       ELSE LET top == stack[Len(stack)]
                middle == top.beg + ((top.end - top.beg) \div 2)
            IN  IF top.st = "left"
                THEN /\ stack' = Append(
                            [stack EXCEPT ![Len(stack)].st = "right",
                                          ![Len(stack)].left = ret],
                            Frame(middle, top.end))
                     /\ pc' = "impl"
                     /\ UNCHANGED <<result, A, B>>
                ELSE /\ A' = top.left
                     /\ B' = ret
                     /\ stack' = SubSeq(stack, 1, Len(stack) - 1)
                     /\ pc' = "merge"
                     /\ UNCHANGED result
    /\ UNCHANGED <<pts, ret, round, first, ca, cb, ft, a_down, b_down, a_up,
                   b_up, end_A, end_B, beg, wend, wdir, builder>>

(***************************************************************************)
(* merge, on entry: the collinearity test and the two circulators.         *)
(***************************************************************************)
Merge ==
    /\ pc = "merge"
    /\ ca' = 1
    /\ cb' = 1
    /\ pc' = IF is_on_one_line2(A, B) THEN "ol_leftA" ELSE "lo_rightA"
    /\ UNCHANGED <<pts, stack, ret, result, round, first, A, B, ft, a_down,
                   b_down, a_up, b_up, end_A, end_B, beg, wend, wdir, builder>>

(***************************************************************************)
(* set_leftmost / set_rightmost: the early return, or one test of the      *)
(* loop's condition and, when it holds, one pass through its body.         *)
(***************************************************************************)
SetLeftmost ==
    /\ pc \in LeftmostSites
    /\ LET onA == pc \in SitesOnA
           c == IF onA THEN A ELSE B
           current == IF onA THEN ca ELSE cb
       IN  IF LocatorReturnsEarly(c, current) \/ IsLeftmost(c, current)
           THEN /\ pc' = AfterSite(pc)
                /\ UNCHANGED <<ca, cb>>
           ELSE /\ ca' = IF onA THEN CircNext(c, current) ELSE ca
                /\ cb' = IF onA THEN cb ELSE CircNext(c, current)
                /\ UNCHANGED pc
    /\ UNCHANGED <<pts, stack, ret, result, round, first, A, B, ft, a_down,
                   b_down, a_up, b_up, end_A, end_B, beg, wend, wdir, builder>>

SetRightmost ==
    /\ pc \in RightmostSites
    /\ LET onA == pc \in SitesOnA
           c == IF onA THEN A ELSE B
           current == IF onA THEN ca ELSE cb
       IN  IF LocatorReturnsEarly(c, current) \/ IsRightmost(c, current)
           THEN /\ pc' = AfterSite(pc)
                /\ UNCHANGED <<ca, cb>>
           ELSE /\ ca' = IF onA THEN CircNext(c, current) ELSE ca
                /\ cb' = IF onA THEN cb ELSE CircNext(c, current)
                /\ UNCHANGED pc
    /\ UNCHANGED <<pts, stack, ret, result, round, first, A, B, ft, a_down,
                   b_down, a_up, b_up, end_A, end_B, beg, wend, wdir, builder>>

(***************************************************************************)
(* find_tangent(first, second): one test of a loop condition and, when it  *)
(* holds, one pass through that loop's body.  The lower tangent is         *)
(* find_tangent(circular_A, circular_B), the upper one                     *)
(* find_tangent(circular_B, circular_A).                                   *)
(***************************************************************************)
FindTangent ==
    /\ pc \in {"lo_tan", "up_tan"}
    /\ LET lower == pc = "lo_tan"
           c1 == IF lower THEN A ELSE B
           i1 == IF lower THEN ca ELSE cb
           c2 == IF lower THEN B ELSE A
           i2 == IF lower THEN cb ELSE ca
           prevBad == ~is_tangent(c1[i1], c2[i2], c1[CircPrev(c1, i1)])
           nextBad == ~is_tangent(c1[i1], c2[i2], c2[CircNext(c2, i2)])
           n1 == CircPrev(c1, i1)
           n2 == CircNext(c2, i2)
       IN  CASE ft = "outer" ->
                    IF prevBad \/ nextBad
                    THEN ft' = "inner1" /\ UNCHANGED <<pc, ca, cb>>
                    ELSE /\ pc' = IF lower THEN "lo_save" ELSE "up_save"
                         /\ UNCHANGED <<ft, ca, cb>>
             [] ft = "inner1" ->
                    IF prevBad
                    THEN /\ ca' = IF lower THEN n1 ELSE ca
                         /\ cb' = IF lower THEN cb ELSE n1
                         /\ UNCHANGED <<pc, ft>>
                    ELSE ft' = "inner2" /\ UNCHANGED <<pc, ca, cb>>
             [] OTHER ->
                    IF nextBad
                    THEN /\ ca' = IF lower THEN ca ELSE n2
                         /\ cb' = IF lower THEN n2 ELSE cb
                         /\ UNCHANGED <<pc, ft>>
                    ELSE ft' = "outer" /\ UNCHANGED <<pc, ca, cb>>
    /\ UNCHANGED <<pts, stack, ret, result, round, first, A, B, a_down, b_down,
                   a_up, b_up, end_A, end_B, beg, wend, wdir, builder>>

(***************************************************************************)
(* merge: a_down, b_down after the lower tangent; a_up, b_up after the     *)
(* upper one.                                                              *)
(***************************************************************************)
SaveLowerTangent ==
    /\ pc = "lo_save"
    /\ a_down' = ca
    /\ b_down' = cb
    /\ pc' = "up_rightA"
    /\ UNCHANGED <<pts, stack, ret, result, round, first, A, B, ca, cb, ft,
                   a_up, b_up, end_A, end_B, beg, wend, wdir, builder>>

SaveUpperTangent ==
    /\ pc = "up_save"
    /\ a_up' = ca
    /\ b_up' = cb
    /\ pc' = "st_A"
    /\ UNCHANGED <<pts, stack, ret, result, round, first, A, B, ca, cb, ft,
                   a_down, b_down, end_A, end_B, beg, wend, wdir, builder>>

(***************************************************************************)
(* build_oneline_contour: end_A and end_B, one before the leftmost points. *)
(***************************************************************************)
BuildOnelineEnds ==
    /\ pc = "ol_ends"
    /\ end_A' = CircPrev(A, ca)
    /\ end_B' = CircPrev(B, cb)
    /\ pc' = "ol_walkA"
    /\ UNCHANGED <<pts, stack, ret, result, round, first, A, B, ca, cb, ft,
                   a_down, b_down, a_up, b_up, beg, wend, wdir, builder>>

(***************************************************************************)
(* build_oneline_contour: one pass through the body of one of its two      *)
(* loops, or the add_point that follows the loop.                          *)
(***************************************************************************)
BuildOnelineStep ==
    /\ pc \in {"ol_walkA", "ol_walkB"}
    /\ IF pc = "ol_walkA"
       THEN IF ca # end_A
            THEN /\ builder' = Append(builder, A[ca])
                 /\ ca' = CircNext(A, ca)
                 /\ UNCHANGED <<pc, cb>>
            ELSE /\ builder' = Append(builder, A[end_A])
                 /\ pc' = "ol_walkB"
                 /\ UNCHANGED <<ca, cb>>
       ELSE IF cb # end_B
            THEN /\ builder' = Append(builder, B[cb])
                 /\ cb' = CircNext(B, cb)
                 /\ UNCHANGED <<pc, ca>>
            ELSE /\ builder' = Append(builder, B[end_B])
                 /\ pc' = "merge_ret"
                 /\ UNCHANGED <<ca, cb>>
    /\ UNCHANGED <<pts, stack, ret, result, round, first, A, B, ft, a_down,
                   b_down, a_up, b_up, end_A, end_B, beg, wend, wdir>>

(***************************************************************************)
(* add_contour_to_builder(builder, A, a_up, a_down), then                  *)
(* add_contour_to_builder(builder, B, b_down, b_up): the choice between    *)
(* the two walks and, in add_oneline_contour_to_builder, of the direction  *)
(* (++beg == end, then --beg).                                             *)
(***************************************************************************)
WalkDirection(contour, b, e) ==
    IF is_on_one_line(contour)
    THEN IF CircNext(contour, b) = e THEN -1 ELSE 1
    ELSE 1

AddContourToBuilder ==
    /\ pc \in {"st_A", "st_B"}
    /\ LET onA == pc = "st_A"
           contour == IF onA THEN A ELSE B
           b == IF onA THEN a_up ELSE b_down
           e == IF onA THEN a_down ELSE b_up
       IN  /\ beg' = b
           /\ wend' = e
           /\ wdir' = WalkDirection(contour, b, e)
           /\ pc' = IF onA THEN "st_walkA" ELSE "st_walkB"
    /\ UNCHANGED <<pts, stack, ret, result, round, first, A, B, ca, cb, ft,
                   a_down, b_down, a_up, b_up, end_A, end_B, builder>>

(***************************************************************************)
(* add_oneline_contour_to_builder / add_convex_contour_to_builder: one     *)
(* pass through the loop's body, or the add_point of *end after the loop.   *)
(***************************************************************************)
AddPoint ==
    /\ pc \in {"st_walkA", "st_walkB"}
    /\ LET contour == IF pc = "st_walkA" THEN A ELSE B
       IN  IF beg # wend
           THEN /\ builder' = Append(builder, contour[beg])
                /\ beg' = IF wdir = 1 THEN CircNext(contour, beg)
                                      ELSE CircPrev(contour, beg)
                /\ UNCHANGED pc
           ELSE /\ builder' = Append(builder, contour[wend])
                /\ pc' = IF pc = "st_walkA" THEN "st_B" ELSE "merge_ret"
                /\ UNCHANGED beg
    /\ UNCHANGED <<pts, stack, ret, result, round, first, A, B, ca, cb, ft,
                   a_down, b_down, a_up, b_up, end_A, end_B, wend, wdir>>

(***************************************************************************)
(* merge returns builder.get_result(); its locals go out of scope.         *)
(***************************************************************************)
MergeReturn ==
    /\ pc = "merge_ret"
    /\ ret' = builder
    /\ pc' = "ret"
    /\ A' = <<>> /\ B' = <<>> /\ ca' = 0 /\ cb' = 0 /\ ft' = "outer"
    /\ a_down' = 0 /\ b_down' = 0 /\ a_up' = 0 /\ b_up' = 0
    /\ end_A' = 0 /\ end_B' = 0 /\ beg' = 0 /\ wend' = 0 /\ wdir' = 0
    /\ builder' = <<>>
    /\ UNCHANGED <<pts, stack, result, round, first>>

(***************************************************************************)
(* The caller calls merge_hull again, on the vertices of the contour it    *)
(* got from its first call.                                                *)
(***************************************************************************)
Rehull ==
    /\ pc = "done"
    /\ round = 1
    /\ first' = result
    /\ pts' = result
    /\ result' = <<>>
    /\ round' = 2
    /\ pc' = "start"
    /\ UNCHANGED <<stack, ret, mergeLocals>>

Next ==
    \/ MergeHull
    \/ ImplEnter
    \/ ImplReturn
    \/ Merge
    \/ SetLeftmost
    \/ SetRightmost
    \/ FindTangent
    \/ SaveLowerTangent
    \/ SaveUpperTangent
    \/ BuildOnelineEnds
    \/ BuildOnelineStep
    \/ AddContourToBuilder
    \/ AddPoint
    \/ MergeReturn

NextTwice == Next \/ Rehull

NextLocator == SetLeftmost \/ SetRightmost

\* one call of merge_hull on any sequence of at most MaxN points
Spec == Init /\ [][Next]_vars

\* the program is sequential: it takes its next step whenever it has one
FairSpec == Spec /\ WF_vars(Next)

\* one call of merge_hull on a sorted sequence of at most MaxSorted points
SpecSorted == InitSorted /\ [][Next]_vars

\* merge_hull on a sorted sequence, then merge_hull on its result
SpecTwice == InitTwice /\ [][NextTwice]_vars

\* set_leftmost or set_rightmost alone
SpecLocator == InitLocator /\ [][NextLocator]_vars

FairSpecLocator == SpecLocator /\ WF_vars(NextLocator)

(***************************************************************************)
(* Geometry the properties are stated with.                                *)
(***************************************************************************)
\* all the points of a sequence lie on one line
AllCollinear(P) ==
    \A a \in Range(P), b \in Range(P), c \in Range(P) :
        turn(a, b, c) = "COLLINEAR"

\* no two elements of a sequence are the same point
Distinct(P) == \A i \in 1..Len(P), j \in 1..Len(P) : i # j => P[i] # P[j]

\* p lies on or inside the closed polygon H: it is right of none of its edges
Inside(H, p) ==
    \A i \in 1..Len(H) : turn(H[i], H[CircNext(H, i)], p) # "RIGHT"

\* no three cyclically consecutive vertices of H make a right turn
NoRightTurn(H) ==
    \A i \in 1..Len(H) :
        turn(H[i], H[CircNext(H, i)], H[CircNext(H, CircNext(H, i))]) # "RIGHT"

\* p lies strictly inside the convex hull of the points P: every line through
\* p and another point of P has points of P strictly on both of its sides
StrictlyInside(p, P) ==
    /\ \E q \in Range(P) : q # p
    /\ \A q \in Range(P) \ {p} :
          /\ \E r \in Range(P) : turn(p, q, r) = "RIGHT"
          /\ \E r \in Range(P) : turn(p, q, r) = "LEFT"

\* y is x read from another starting vertex
SameCycle(x, y) ==
    /\ Len(x) = Len(y)
    /\ \/ Len(x) = 0
       \/ \E k \in 0..(Len(x) - 1) :
             \A i \in 1..Len(x) : y[i] = x[((i - 1 + k) % Len(x)) + 1]

(***************************************************************************)
(* C1.  Containment: every input point lies on or inside the contour that  *)
(* merge_hull returns: it is RIGHT of no edge (u, v) of cyclically         *)
(* consecutive vertices.                                                   *)
(***************************************************************************)
Containment ==
    pc = "done" => \A p \in Range(pts) : Inside(result, p)

(***************************************************************************)
(* C2.  Global convexity: the contour merge_hull returns has no three      *)
(* cyclically consecutive vertices that make a RIGHT turn, or all of its   *)
(* vertices are collinear.                                                 *)
(***************************************************************************)
GlobalConvexity ==
    pc = "done" => (NoRightTurn(result) \/ AllCollinear(result))

(***************************************************************************)
(* C3.  merge_hull raises the invalid-input error exactly when it is       *)
(* given fewer than 2 points, and then before it sorts or calls            *)
(* merge_hull_impl: no frame was pushed, nothing was returned.             *)
(***************************************************************************)
ErrorIffTooFewPoints ==
    /\ pc = "error" => (Len(pts) < 2 /\ stack = <<>> /\ ret = <<>>
                          /\ result = <<>>)
    /\ Len(pts) >= 2 => pc # "error"
    /\ Len(pts) < 2 => pc \in {"start", "error"}

ErrorRaised == pc = "error" /\ Len(pts) = 1

(***************************************************************************)
(* C4.  Termination: merge_hull, called with at least 2 points             *)
(* (duplicates permitted), returns a contour after finitely many steps.    *)
(***************************************************************************)
Termination ==
    (pc = "start" /\ Len(pts) >= 2) ~> (pc = "done")

(***************************************************************************)
(* C5.  Collinear input: when the (at least 2) input points all lie on one *)
(* line, merge_hull returns a contour that holds all of them, as the path  *)
(* from the least point to the greatest one (pts is the sorted input by    *)
(* then).                                                                  *)
(***************************************************************************)
CollinearInputPreserved ==
    (pc = "start" /\ Len(pts) >= 2 /\ AllCollinear(pts))
        ~> (pc = "done" /\ result = pts)

(***************************************************************************)
(* C6.  Every vertex of the contour merge_hull returns is an input point,  *)
(* and no input point strictly inside the convex hull of the input is a    *)
(* vertex of it.                                                           *)
(***************************************************************************)
VerticesAreHullPoints ==
    pc = "done" =>
        /\ Range(result) \subseteq Range(pts)
        /\ \A v \in Range(result) : ~StrictlyInside(v, pts)

(***************************************************************************)
(* C7.  Idempotence: merge_hull called on the vertices of its own result   *)
(* returns the same vertices in the same cyclic order, up to the starting  *)
(* vertex.                                                                 *)
(***************************************************************************)
Idempotence ==
    (round = 2 /\ pc = "done") => SameCycle(first, result)

(***************************************************************************)
(* C8.  When both tangent searches of merge have finished, no vertex of A  *)
(* or B is RIGHT of a_down -> b_down, and none is RIGHT of b_up -> a_up.   *)
(***************************************************************************)
TangentsAreGlobal ==
    pc = "st_A" =>
        /\ is_tangent_contour(A[a_down], B[b_down], A)
        /\ is_tangent_contour(A[a_down], B[b_down], B)
        /\ is_tangent_contour(B[b_up], A[a_up], A)
        /\ is_tangent_contour(B[b_up], A[a_up], B)

(***************************************************************************)
(* C9, as claimed.  On a contour of 1 or 2 points every step of            *)
(* set_leftmost and set_rightmost leaves the circulator where it was.      *)
(***************************************************************************)
LocatorKeepsSmallContours ==
    [][(pc \in LocatorSites /\ Len(A) <= 2) => ca' = ca]_vars

(***************************************************************************)
(* C9, amended.  On a contour of 1 point set_leftmost and set_rightmost    *)
(* return, with the circulator at the position it was given.               *)
(***************************************************************************)
LocatorKeepsSinglePoint ==
    \A k \in 1..MaxLocLen :
        (pc \in LocatorSites /\ Len(A) = 1 /\ ca = k)
            ~> (pc = "loc_done" /\ ca = k)

LocatorReturnedOnSinglePoint == pc = "loc_done" /\ Len(A) = 1 /\ ca = 1

(***************************************************************************)
(* C10.  merge takes the build_oneline_contour branch if and only if all   *)
(* the points of A and B together lie on one line.                         *)
(***************************************************************************)
CollinearityCheckExact ==
    /\ pc \in OnelineSites => AllCollinear(A \o B)
    /\ pc \in TangentSites => ~AllCollinear(A \o B)

(***************************************************************************)
(* What holds of inputs without duplicate points (the sort of distinct     *)
(* points is strictly increasing, and every contour built from them has    *)
(* distinct vertices).                                                     *)
(***************************************************************************)
DistinctInputsHull ==
    (pc = "done" /\ Distinct(pts)) =>
        /\ \A p \in Range(pts) : Inside(result, p)
        /\ NoRightTurn(result) \/ AllCollinear(result)
        /\ Range(result) \subseteq Range(pts)
        /\ \A v \in Range(result) : ~StrictlyInside(v, pts)
        /\ Distinct(result)
        /\ AllCollinear(pts) => result = pts

DistinctInputsMerge ==
    Distinct(pts) =>
        /\ pc \in OnelineSites => AllCollinear(A \o B)
        /\ pc \in TangentSites => ~AllCollinear(A \o B)
        /\ pc = "st_A" =>
              /\ is_tangent_contour(A[a_down], B[b_down], A \o B)
              /\ is_tangent_contour(B[b_up], A[a_up], A \o B)

DistinctInputsIdempotent ==
    (round = 2 /\ pc = "done" /\ Distinct(first)) => SameCycle(first, result)

DistinctInputsTerminate ==
    (pc = "start" /\ Len(pts) >= 2 /\ Distinct(pts)) ~> (pc = "done")

====
